---- MODULE Spec2Model ----
(***************************************************************************)
(* A model of the hogwarts student-records server (src/server.mjs): the    *)
(* request dispatcher with its trailing-slash redirect, the static file    *)
(* resolver, the route table and its compiled patterns, the form body      *)
(* parser, the response helpers and the handlers behind the routes.        *)
(*                                                                         *)
(* Strings are sequences of atoms.  An atom is either a single character   *)
(* ("/", ".", "?", "=", "&", "+", "-", ":", " ") or a word of [A-Za-z0-9_] *)
(* characters that the inputs never split ("students", "public", "7").     *)
(* No atom is a prefix of another, so equality, startsWith, endsWith and   *)
(* concatenation on atoms agree with the same operations on characters.    *)
(***************************************************************************)
EXTENDS Integers, Sequences, FiniteSets, TLC

VARIABLES reqs, students, nextId, files, served, probe

vars == <<reqs, students, nextId, files, served, probe>>

(***************************************************************************)
(* Bounds of the model.                                                    *)
(***************************************************************************)
\* Requests accepted in one behaviour.
MaxRequests == 2
\* Data events the body of one request is delivered in.
MaxChunks == 2
\* Fields in a submitted form.
MaxFields == 2
\* Atoms in the parameter position of a probed path.
MaxIdLen == 2

(***************************************************************************)
(* String primitives of JavaScript, on sequences of atoms.                 *)
(***************************************************************************)
startsWith(s, p) == Len(p) <= Len(s) /\ SubSeq(s, 1, Len(p)) = p

endsWith(s, p) == Len(p) <= Len(s) /\ SubSeq(s, Len(s) - Len(p) + 1, Len(s)) = p

\* String.prototype.slice(from) with from counted from 1.
sliceFrom(s, from) == SubSeq(s, from, Len(s))

\* String.prototype.slice(0, -1).
sliceDropLast(s) == SubSeq(s, 1, Len(s) - 1)

\* String.prototype.indexOf, counted from 1; 0 when p does not occur.
indexOf(s, p) ==
  LET hits == {i \in 1..(Len(s) - Len(p) + 1) : SubSeq(s, i, i + Len(p) - 1) = p}
  IN IF hits = {} THEN 0 ELSE CHOOSE i \in hits : \A j \in hits : i <= j

\* String.prototype.replace(p, r) with a string pattern: the first occurrence.
replace(s, p, r) ==
  LET i == indexOf(s, p)
  IN IF i = 0 THEN s
     ELSE SubSeq(s, 1, i - 1) \o r \o SubSeq(s, i + Len(p), Len(s))

\* String.prototype.split(sep) for a one-atom separator.
RECURSIVE split(_, _)
split(s, sep) ==
  LET i == indexOf(s, <<sep>>)
  IN IF i = 0 THEN <<s>>
     ELSE <<SubSeq(s, 1, i - 1)>> \o split(sliceFrom(s, i + 1), sep)

\* Array.prototype.join(sep) on an array of strings.
RECURSIVE join(_, _)
join(parts, sep) ==
  IF parts = <<>> THEN <<>>
  ELSE IF Len(parts) = 1 THEN parts[1]
  ELSE parts[1] \o <<sep>> \o join(Tail(parts), sep)

\* Buffer.concat(chunks).toString(): the chunks one after the other.
RECURSIVE concat(_)
concat(chunks) ==
  IF chunks = <<>> THEN <<>> ELSE chunks[1] \o concat(Tail(chunks))

\* The characters of \w, as atoms: the words and digits the inputs use.
WordAtoms ==
  {"students", "delete", "change", "download", "search", "api", "public",
   "style", "css", "old", "secret", "server", "config", "missing", "nope",
   "order", "abc", "v", "x", "id", "1", "2", "3", "4", "5", "7", "_",
   "Harry", "Ron", "Draco"}

\* The character class [\w.] of the route compiler.
isWordOrDot(a) == a \in WordAtoms \/ a = "."

(***************************************************************************)
(* node:path (posix): normalize, join, extname.                            *)
(***************************************************************************)
\* normalizeString: "." and empty segments dropped, ".." removes the segment
\* before it, or is kept in a relative path that has nothing left to remove.
RECURSIVE normalizeSegments(_, _, _)
normalizeSegments(segs, acc, isAbsolute) ==
  IF segs = <<>> THEN acc
  ELSE LET seg == Head(segs)
           rest == Tail(segs)
       IN IF seg = <<>> \/ seg = <<".">>
          THEN normalizeSegments(rest, acc, isAbsolute)
          ELSE IF seg = <<".", ".">>
          THEN IF acc # <<>> /\ acc[Len(acc)] # <<".", ".">>
               THEN normalizeSegments(rest, SubSeq(acc, 1, Len(acc) - 1), isAbsolute)
               ELSE IF isAbsolute
               THEN normalizeSegments(rest, acc, isAbsolute)
               ELSE normalizeSegments(rest, Append(acc, seg), isAbsolute)
          ELSE normalizeSegments(rest, Append(acc, seg), isAbsolute)

pathNormalize(p) ==
  IF p = <<>> THEN <<".">>
  ELSE LET isAbsolute == p[1] = "/"
           trailing == p[Len(p)] = "/"
           body == join(normalizeSegments(split(p, "/"), <<>>, isAbsolute), "/")
       IN IF body = <<>>
          THEN IF isAbsolute THEN <<"/">> ELSE IF trailing THEN <<".", "/">> ELSE <<".">>
          ELSE (IF isAbsolute THEN <<"/">> ELSE <<>>) \o body
               \o (IF trailing THEN <<"/">> ELSE <<>>)

\* path.join(a, b): the non-empty arguments joined by "/" and normalized.
pathJoin(a, b) ==
  IF a = <<>> /\ b = <<>> THEN <<".">>
  ELSE IF b = <<>> THEN pathNormalize(a)
  ELSE IF a = <<>> THEN pathNormalize(b)
  ELSE pathNormalize(a \o <<"/">> \o b)

\* path.extname: from the last "." of the last segment, when that "." is not
\* the segment's first character; "" otherwise.
pathExtname(p) ==
  LET segs == split(p, "/")
      base == segs[Len(segs)]
      dots == {i \in 1..Len(base) : base[i] = "."}
  IN IF dots = {} THEN <<>>
     ELSE LET last == CHOOSE i \in dots : \A j \in dots : j <= i
          IN IF last = 1 \/ base = <<".", ".">> THEN <<>> ELSE sliceFrom(base, last)

(***************************************************************************)
(* node:url: url.parse(request.url), reduced to the pathname and the query.*)
(***************************************************************************)
Null == <<"<null>">>

urlPathname(u) ==
  LET i == indexOf(u, <<"?">>) IN IF i = 0 THEN u ELSE SubSeq(u, 1, i - 1)

urlQuery(u) ==
  LET i == indexOf(u, <<"?">>) IN IF i = 0 THEN Null ELSE sliceFrom(u, i + 1)

(***************************************************************************)
(* The route table and its compiled patterns.                              *)
(***************************************************************************)
routeTable ==
  << [path |-> <<"/">>, methods |-> {"GET"}, handler |-> "index"],
     [path |-> <<"/", "students">>, methods |-> {"GET", "POST"},
      handler |-> "studentList"],
     [path |-> <<"/", "students", "/", "delete">>, methods |-> {"POST"},
      handler |-> "studentDelete"],
     [path |-> <<"/", "students", "/", ":", "id", "/", "change">>,
      methods |-> {"GET", "POST"}, handler |-> "studentChange"],
     [path |-> <<"/", "students", "/", "download">>, methods |-> {"GET"},
      handler |-> "studentsDownload"],
     [path |-> <<"/", "students", "/", "search">>, methods |-> {"GET"},
      handler |-> "studentsSearch"],
     [path |-> <<"/", "api", "/", "students">>, methods |-> {"GET"},
      handler |-> "studentsAPISearch"] >>

\* The length of the longest run of [\w.] atoms of s that starts at i.
RECURSIVE classRun(_, _)
classRun(s, i) ==
  IF i <= Len(s) /\ isWordOrDot(s[i]) THEN 1 + classRun(s, i + 1) ELSE 0

\* The atoms of the class a placeholder compiles to.
paramClass == <<"[\\w.]+">>

\* route.path.replace(/:([\w.]+)/, "(?<$1>[\\w.]+)"): the first ":" that a
\* [\w.] character follows, with the whole run after it as the group's name.
compileParam(template) ==
  LET hits == {i \in 1..Len(template) : template[i] = ":" /\ classRun(template, i + 1) > 0}
  IN IF hits = {} THEN template
     ELSE LET i == CHOOSE h \in hits : \A j \in hits : h <= j
              n == classRun(template, i + 1)
          IN SubSeq(template, 1, i - 1)
             \o <<"(?<">> \o SubSeq(template, i + 1, i + n) \o <<">">>
             \o paramClass \o <<")">>
             \o SubSeq(template, i + n + 1, Len(template))

\* The compiler without the closing anchor.
compilePatternOpenEnd(template) == <<"^">> \o compileParam(template)

\* The source of route.pattern: "^" + ... + "$".
compilePattern(template) == <<"^">> \o compileParam(template) \o <<"$">>

routes ==
  [i \in 1..Len(routeTable) |->
     [path |-> routeTable[i].path, methods |-> routeTable[i].methods,
      handler |-> routeTable[i].handler,
      pattern |-> compilePattern(routeTable[i].path)]]

(***************************************************************************)
(* RegExp, for the syntax a compiled route pattern can hold: the anchors,  *)
(* "." (literals are not escaped), a named group over [\w.]+, literals.    *)
(***************************************************************************)
\* Atoms of one character, which "." can match.
SingleCharAtoms ==
  {"/", ".", "?", "=", "&", "+", "-", ":", " ", "v", "x", "1", "2", "3", "4",
   "5", "7", "_"}

RECURSIVE regexElements(_)
regexElements(src) ==
  IF src = <<>> THEN <<>>
  ELSE LET a == Head(src) IN
    IF a = "^" THEN <<[t |-> "bol", c |-> "", name |-> <<>>]>> \o regexElements(Tail(src))
    ELSE IF a = "$" THEN <<[t |-> "eol", c |-> "", name |-> <<>>]>> \o regexElements(Tail(src))
    ELSE IF a = "." THEN <<[t |-> "any", c |-> "", name |-> <<>>]>> \o regexElements(Tail(src))
    ELSE IF a = "(?<"
    THEN LET close == indexOf(src, <<">">>)
         IN <<[t |-> "group", c |-> "", name |-> SubSeq(src, 2, close - 1)]>>
            \o regexElements(sliceFrom(src, close + 3))
    ELSE <<[t |-> "lit", c |-> a, name |-> <<>>]>> \o regexElements(Tail(src))

NoMatch == [ok |-> FALSE, groups |-> <<>>]

\* The elements matched against str from position pos on; a group is greedy
\* and gives back what the rest of the pattern needs.
RECURSIVE matchHere(_, _, _, _)
matchHere(elems, str, pos, groups) ==
  IF elems = <<>> THEN [ok |-> TRUE, groups |-> groups]
  ELSE LET e == Head(elems)
           rest == Tail(elems)
       IN CASE e.t = "bol" ->
                 IF pos = 1 THEN matchHere(rest, str, pos, groups) ELSE NoMatch
            [] e.t = "eol" ->
                 IF pos = Len(str) + 1 THEN matchHere(rest, str, pos, groups) ELSE NoMatch
            [] e.t = "any" ->
                 IF pos <= Len(str) /\ str[pos] \in SingleCharAtoms
                 THEN matchHere(rest, str, pos + 1, groups) ELSE NoMatch
            [] e.t = "lit" ->
                 IF pos <= Len(str) /\ str[pos] = e.c
                 THEN matchHere(rest, str, pos + 1, groups) ELSE NoMatch
            [] e.t = "group" ->
                 LET with(n) == Append(groups, [name |-> e.name,
                                                value |-> SubSeq(str, pos, pos + n - 1)])
                     fits == {n \in 1..classRun(str, pos) :
                                matchHere(rest, str, pos + n, with(n)).ok}
                 IN IF fits = {} THEN NoMatch
                    ELSE LET n == CHOOSE m \in fits : \A k \in fits : k <= m
                         IN matchHere(rest, str, pos + n, with(n))

\* RegExp.prototype.exec: the leftmost position the pattern matches from.
regexExec(src, str) ==
  LET elems == regexElements(src)
      starts == {p \in 1..(Len(str) + 1) : matchHere(elems, str, p, <<>>).ok}
  IN IF starts = {} THEN NoMatch
     ELSE matchHere(elems, str, CHOOSE p \in starts : \A q \in starts : p <= q, <<>>)

Undefined == <<"<undefined>">>

\* params[name], for params = match.groups ?? {}.
paramsGet(params, name) ==
  LET hits == {i \in 1..Len(params) : params[i].name = name}
  IN IF hits = {} THEN Undefined ELSE params[CHOOSE i \in hits : TRUE].value

(***************************************************************************)
(* application/x-www-form-urlencoded: what the client writes and what      *)
(* URLSearchParams reads.                                                  *)
(***************************************************************************)
\* The client's serializer: a space as "+", the reserved characters escaped.
encodeAtom(a) ==
  CASE a = " " -> "+"
    [] a = "&" -> "%26"
    [] a = "=" -> "%3D"
    [] a = "+" -> "%2B"
    [] OTHER -> a

encodeString(s) == [i \in 1..Len(s) |-> encodeAtom(s[i])]

\* The body a client sends for a list of <<name, value>> fields.
RECURSIVE encodeForm(_)
encodeForm(fields) ==
  IF fields = <<>> THEN <<>>
  ELSE encodeString(fields[1][1]) \o <<"=">> \o encodeString(fields[1][2])
       \o (IF Len(fields) = 1 THEN <<>> ELSE <<"&">> \o encodeForm(Tail(fields)))

\* URLSearchParams' decoder: "+" is a space, %XX is the character it names.
decodeAtom(a) ==
  CASE a = "+" -> " "
    [] a = "%26" -> "&"
    [] a = "%3D" -> "="
    [] a = "%2B" -> "+"
    [] OTHER -> a

decodeString(s) == [i \in 1..Len(s) |-> decodeAtom(s[i])]

\* One "name=value" piece: split at the first "=", a piece without "=" has
\* the empty value.
parsePair(piece) ==
  LET i == indexOf(piece, <<"=">>)
  IN IF i = 0 THEN <<decodeString(piece), <<>>>>
     ELSE <<decodeString(SubSeq(piece, 1, i - 1)), decodeString(sliceFrom(piece, i + 1))>>

RECURSIVE parsePairs(_)
parsePairs(pieces) ==
  IF pieces = <<>> THEN <<>>
  ELSE IF pieces[1] = <<>> THEN parsePairs(Tail(pieces))
  ELSE <<parsePair(pieces[1])>> \o parsePairs(Tail(pieces))

\* new URLSearchParams(init): a leading "?" is dropped, the pieces between
\* "&" are the pairs, in their order.
URLSearchParams(init) ==
  LET s == IF init # <<>> /\ init[1] = "?" THEN Tail(init) ELSE init
  IN IF s = <<>> THEN <<>> ELSE parsePairs(split(s, "&"))

\* A get that returns the value stored last under the name.
formDataGetLast(formData, name) ==
  LET hits == {i \in 1..Len(formData) : formData[i][1] = name}
  IN IF hits = {} THEN Null
     ELSE formData[CHOOSE i \in hits : \A j \in hits : j <= i][2]

\* URLSearchParams.prototype.get and FormData.prototype.get: the first value
\* stored under the name, null when there is none.
formDataGet(formData, name) ==
  LET hits == {i \in 1..Len(formData) : formData[i][1] = name}
  IN IF hits = {} THEN Null
     ELSE formData[CHOOSE i \in hits : \A j \in hits : i <= j][2]

\* The end listener's body: decode the concatenated chunks, append every
\* pair of the URLSearchParams to a fresh FormData.
parseBody(chunks) == URLSearchParams(concat(chunks))

\* chunks.unshift(chunk): the newest chunk first.
unshiftChunk(chunks, chunk) == <<chunk>> \o chunks

\* chunks.push(chunk).
pushChunk(chunks, chunk) == Append(chunks, chunk)

(***************************************************************************)
(* The houses, the public root, MIME types.                                *)
(***************************************************************************)
HOUSES == {<<"Gryffindor">>, <<"Slytherin">>, <<"Hufflepuff">>, <<"Ravenclaw">>}

\* process.cwd() of the running server.
Cwd == <<"/", "srv">>

PUBLIC_PATH == pathJoin(Cwd, <<"public">>)

MimeDefault == "application/octet-stream"

mimeType(fileExt) ==
  CASE fileExt = <<"html">> -> "text/html; charset=utf-8"
    [] fileExt = <<"js">> -> "text/javascript"
    [] fileExt = <<"mjs">> -> "text/javascript"
    [] fileExt = <<"css">> -> "text/css"
    [] fileExt = <<"png">> -> "image/png"
    [] fileExt = <<"jpg">> -> "image/jpg"
    [] fileExt = <<"jpeg">> -> "image/jpeg"
    [] fileExt = <<"gif">> -> "image/gif"
    [] fileExt = <<"ico">> -> "image/x-icon"
    [] fileExt = <<"svg">> -> "image/svg+xml"
    [] OTHER -> MimeDefault

\* String.prototype.toLowerCase, for the extensions the inputs use.
lowerAtom(a) ==
  CASE a = "CSS" -> "css"
    [] a = "PNG" -> "png"
    [] OTHER -> a

toLowerCase(s) == [i \in 1..Len(s) |-> lowerAtom(s[i])]

\* request.headers.host, with the scheme the redirect helper puts before it.
Origin == <<"http://", "host">>

(***************************************************************************)
(* A request and its response.  pc is where the request's code is waiting: *)
(* "idle" no request, "accepted" handleRequest not yet run, "done" the     *)
(* response ended, "failed" the handler's promise rejected with nobody to  *)
(* catch it (no response is written), and otherwise the await it is at.    *)
(***************************************************************************)
NoRequest ==
  [pc |-> "idle", method |-> "", url |-> <<>>, fields |-> <<>>, body |-> <<>>,
   unsent |-> <<>>, chunks |-> <<>>, nData |-> 0, formData |-> <<>>,
   parsed |-> FALSE, invoked |-> <<>>, params |-> <<>>, tested |-> <<>>,
   status |-> 0, location |-> <<>>, contentType |-> "", out |-> <<>>,
   events |-> <<>>, filePath |-> <<>>, fileExists |-> FALSE, rows |-> {},
   dbRuns |-> 0, changes |-> 0, rejected |-> FALSE,
   order |-> Null, search |-> Null, studentId |-> Null, student |-> {},
   studentName |-> Null, studentHouse |-> Null, renderStatus |-> 0,
   template |-> ""]

newRequest(method, url, fields) ==
  [NoRequest EXCEPT !.pc = "accepted", !.method = method, !.url = url,
                    !.fields = fields, !.body = encodeForm(fields),
                    !.unsent = encodeForm(fields)]

\* response.writeHead(statusCode, headers).
writeHead(r, statusCode, contentType, location) ==
  [r EXCEPT !.status = statusCode, !.contentType = contentType,
            !.location = location]

\* The response's own end: the body is written and the response completes.
originalEnd(r, chunk) ==
  [r EXCEPT !.out = chunk, !.pc = "done",
            !.events = Append(@, [ev |-> "end", method |-> r.method,
                                  url |-> r.url, status |-> r.status])]

\* console.log(request.method, request.url, response.statusCode).
consoleLog(r) ==
  [r EXCEPT !.events = Append(@, [ev |-> "log", method |-> r.method,
                                  url |-> r.url, status |-> r.status])]

\* An end that logs once the original end has returned.
endThenLog(r, chunk) == consoleLog(originalEnd(r, chunk))

\* response.end as handleRequest replaces it: log, then the original end.
monkeyPatchedEnd(r, chunk) == originalEnd(consoleLog(r), chunk)

\* redirect(request, response, path, statusCode = 302).
redirect(r, path, statusCode) ==
  monkeyPatchedEnd(writeHead(r, statusCode, "", Origin \o path), <<>>)

\* json(response, data, statusCode = 200).
json(r, data) ==
  monkeyPatchedEnd(writeHead(r, 200, "application/json", <<>>), data)

\* A rejection nobody handles: handleRequest and the handlers are async
\* functions whose promise the caller drops.
unhandledRejection(r) == [r EXCEPT !.pc = "failed"]

(***************************************************************************)
(* The handlers, up to their first await.                                  *)
(***************************************************************************)
\* A JavaScript value used as a condition: null, undefined and "" are false.
truthy(v) == v # Null /\ v # Undefined /\ v # <<>>

\* parseFormData(request): the listeners are attached and the caller waits.
parseFormData(r) == [r EXCEPT !.pc = "read_body", !.chunks = <<>>]

\* renderTemplate(name, context) followed by writeHead(status).end(html): the
\* caller waits for the template file.
renderTemplate(r, name, statusCode) ==
  [r EXCEPT !.pc = "render", !.template = name, !.renderStatus = statusCode]

index(r) == redirect(r, <<"/", "students">>, 302)

studentList(r) ==
  IF r.method = "POST" THEN parseFormData(r)
  ELSE [r EXCEPT !.order = formDataGet(URLSearchParams(urlQuery(r.url)), <<"order">>),
                 !.pc = "list_all"]

studentDelete(r) == parseFormData(r)

studentChange(r) ==
  LET studentId == paramsGet(r.params, <<"id">>)
  IN IF truthy(studentId)
     THEN [r EXCEPT !.studentId = studentId, !.pc = "change_lookup"]
     ELSE monkeyPatchedEnd(writeHead([r EXCEPT !.studentId = studentId],
                                     404, "text/html", <<>>),
                           <<"<h1>No student found</h1>">>)

studentsAPISearch(r) ==
  [r EXCEPT !.search = formDataGet(URLSearchParams(urlQuery(r.url)), <<"search">>),
            !.pc = "api_all"]

studentsSearch(r) == renderTemplate(r, "students-search.html", 200)

studentsDownload(r) == [r EXCEPT !.pc = "download_all"]

\* route.handler(request, response, params).
invokeHandler(r, handler, params) ==
  LET q == [r EXCEPT !.invoked = Append(@, handler), !.params = params]
  IN CASE handler = "index" -> index(q)
       [] handler = "studentList" -> studentList(q)
       [] handler = "studentDelete" -> studentDelete(q)
       [] handler = "studentChange" -> studentChange(q)
       [] handler = "studentsDownload" -> studentsDownload(q)
       [] handler = "studentsSearch" -> studentsSearch(q)
       [] handler = "studentsAPISearch" -> studentsAPISearch(q)

(***************************************************************************)
(* handleRequest, up to its first await.                                   *)
(***************************************************************************)
PublicPrefix == <<"/", "public", "/">>

\* The trailing-slash test of the dispatcher.
hasTrailingSlash(r) == endsWith(r.url, <<"/">>)

\* The containment test of the static file resolver.
underPublicPath(filePath) == startsWith(filePath, PUBLIC_PATH)

\* The first route, from i on, whose pattern matches the path; 0 if none.
RECURSIVE firstMatch(_, _)
firstMatch(pathname, i) ==
  IF i > Len(routeTable) THEN 0
  ELSE IF regexExec(routes[i].pattern, pathname).ok THEN i
  ELSE firstMatch(pathname, i + 1)

\* The first route, from i on, that matches the path and allows the method.
RECURSIVE firstAllowed(_, _, _)
firstAllowed(pathname, method, i) ==
  IF i > Len(routeTable) THEN 0
  ELSE IF regexExec(routes[i].pattern, pathname).ok /\ method \in routes[i].methods
  THEN i
  ELSE firstAllowed(pathname, method, i + 1)

\* A loop that goes on to the next route when the method is not allowed.
matchRoutesPastMethod(r) ==
  LET pathname == urlPathname(r.url)
      i == firstAllowed(pathname, r.method, 1)
  IN IF i = 0
     THEN monkeyPatchedEnd(writeHead([r EXCEPT !.tested = [k \in 1..Len(routeTable) |-> k]],
                                     404, "text/html", <<>>),
                           <<"<h1>Page not found!</h1>">>)
     ELSE invokeHandler([r EXCEPT !.tested = [k \in 1..i |-> k]], routes[i].handler,
                        regexExec(routes[i].pattern, pathname).groups)

\* for (let route of routes) { ... } and the 404 after the loop.
matchRoutes(r) ==
  LET pathname == urlPathname(r.url)
      i == firstMatch(pathname, 1)
  IN IF i = 0
     THEN monkeyPatchedEnd(writeHead([r EXCEPT !.tested = [k \in 1..Len(routeTable) |-> k]],
                                     404, "text/html", <<>>),
                           <<"<h1>Page not found!</h1>">>)
     ELSE LET q == [r EXCEPT !.tested = [k \in 1..i |-> k]]
              match == regexExec(routes[i].pattern, pathname)
          IN IF r.method \in routes[i].methods
             THEN invokeHandler(q, routes[i].handler, match.groups)
             ELSE monkeyPatchedEnd(writeHead(q, 405, "", <<>>), <<>>)

handleRequest(r) ==
  IF hasTrailingSlash(r)
  THEN redirect(r, sliceDropLast(r.url), 301)
  ELSE IF startsWith(r.url, PublicPrefix)
  THEN [r EXCEPT !.filePath = pathJoin(PUBLIC_PATH, replace(r.url, PublicPrefix, <<>>)),
                 !.pc = "static_access"]
  ELSE matchRoutes(r)

(***************************************************************************)
(* The handlers after the body has been parsed.                            *)
(***************************************************************************)
\* A creation that stores whatever was submitted.
studentListPostedUnchecked(r) ==
  [r EXCEPT !.studentName = formDataGet(r.formData, <<"name">>),
            !.studentHouse = formDataGet(r.formData, <<"house">>),
            !.pc = "create_exists"]

studentListPosted(r) ==
  LET studentName == formDataGet(r.formData, <<"name">>)
      studentHouse == formDataGet(r.formData, <<"house">>)
      q == [r EXCEPT !.studentName = studentName, !.studentHouse = studentHouse]
  IN IF truthy(studentName) /\ studentHouse \in HOUSES
     THEN [q EXCEPT !.pc = "create_exists"]
     ELSE redirect(q, <<"/", "students">>, 302)

studentDeletePosted(r) ==
  LET studentId == formDataGet(r.formData, <<"id">>)
      q == [r EXCEPT !.studentId = studentId]
  IN IF truthy(studentId)
     THEN [q EXCEPT !.pc = "delete_run"]
     ELSE redirect(q, <<"/", "students">>, 302)

\* studentName.length throws when the body has no name field.
studentChangePosted(r) ==
  LET studentName == formDataGet(r.formData, <<"name">>)
      studentHouse == formDataGet(r.formData, <<"house">>)
      q == [r EXCEPT !.studentName = studentName, !.studentHouse = studentHouse]
  IN IF studentName = Null THEN unhandledRejection(q)
     ELSE IF Len(studentName) > 0 /\ studentHouse \in HOUSES
     THEN [q EXCEPT !.pc = "change_update"]
     ELSE renderTemplate(q, "student-edit.html", 400)

\* The handler that is running for the request, "none" before any is.
handlerOf(r) == IF r.invoked = <<>> THEN "none" ELSE r.invoked[Len(r.invoked)]

\* The awaiting handler resumes with the FormData.
bodyParsed(r) ==
  CASE handlerOf(r) = "studentList" -> studentListPosted(r)
    [] handlerOf(r) = "studentDelete" -> studentDeletePosted(r)
    [] handlerOf(r) = "studentChange" -> studentChangePosted(r)

(***************************************************************************)
(* The students table and the file system.                                 *)
(***************************************************************************)
\* The text SQLite compares an integer id with.
idText(n) == <<ToString(n)>>

\* WHERE id = ? with the id given as text.
rowsWithId(rows, text) == {s \in rows : idText(s.id) = text}

\* WHERE name = ?.
rowsWithName(rows, name) == {s \in rows : s.name = name}

\* WHERE name LIKE '%search%'.
rowsLikeName(rows, search) == {s \in rows : indexOf(s.name, search) # 0 \/ search = <<>>}

\* The UNIQUE constraint the change handler expects the table to have
\* ("Student name and house are not unique").
uniqueConflict(rows, name, house) ==
  \E s \in rows : s.name = name /\ s.house = house

Students0 ==
  { [id |-> 1, name |-> <<"Harry">>, house |-> <<"Gryffindor">>],
    [id |-> 2, name |-> <<"Draco">>, house |-> <<"Slytherin">>] }

\* Regular files at start; Unlink removes them.
Files0 ==
  { PUBLIC_PATH \o <<"/", "style", ".", "css">>,
    Cwd \o <<"/", "public", "-", "old", "/", "secret">>,
    Cwd \o <<"/", "server", "-", "config">> }

Dirs == {Cwd, PUBLIC_PATH, Cwd \o <<"/", "public", "-", "old">>}

\* fs.access(path) resolves.
accessible(fileSet, path) == path \in fileSet \/ path \in Dirs

\* fs.readFile(path) resolves.
readable(fileSet, path) == path \in fileSet

(***************************************************************************)
(* Inputs.                                                                 *)
(***************************************************************************)
Conns == {1, 2}

\* The connections the dispatcher specification serves, one request at a time.
DispatchConns == {1}

Methods == {"GET", "POST", "PUT"}

Urls ==
  { <<"/">>,
    <<"/", "students">>,
    <<"/", "students", "/">>,
    <<"/", "students", "?", "order", "=", "abc">>,
    <<"/", "students", "/", "?", "order", "=", "abc">>,
    <<"/", "students", "/", "download", "?", "x", "=", "/">>,
    <<"/", "students", "/", "delete">>,
    <<"/", "students", "/", "1", "/", "change">>,
    <<"/", "students", "/", "7", "/", "change">>,
    <<"/", "students", "/", "1", "/", "change", "/">>,
    <<"/", "students", "/", "download">>,
    <<"/", "students", "/", "search">>,
    <<"/", "api", "/", "students", "?", "search", "=", "Harry">>,
    <<"/", "nope">>,
    <<"/", "public", "/", "style", ".", "css">>,
    <<"/", "public", "/", "missing", ".", "css">>,
    <<"/", "public", "/", ".", ".", "/", "server", "-", "config">>,
    <<"/", "public", "/", ".", ".", "/", "public", "-", "old", "/", "secret">>,
    <<"/", "public", "/", "style", ".", "css", "/">>,
    <<"/", "public", "/", "style", ".", "css", "?", "v", "=", "1">>,
    <<"/", "public", "/", ".">> }

Forms ==
  { <<>>,
    << <<<<"name">>, <<"Ron">>>>, <<<<"house">>, <<"Gryffindor">>>> >>,
    << <<<<"name">>, <<"Harry">>>>, <<<<"house">>, <<"Slytherin">>>> >>,
    << <<<<"name">>, <<"Ron">>>>, <<<<"house">>, <<"Muggle">>>> >>,
    << <<<<"name">>, <<>>>>, <<<<"house">>, <<"Gryffindor">>>> >>,
    << <<<<"house">>, <<"Gryffindor">>>> >>,
    << <<<<"id">>, <<"1">>>> >>,
    << <<<<"id">>, <<"7">>>> >> }

\* The requests that carry a form: a POST to a route whose handler reads it.
FormsFor(method, url) ==
  IF method = "POST"
     /\ \E i \in {2, 3, 4} : regexExec(routes[i].pattern, urlPathname(url)).ok
  THEN Forms ELSE {<<>>}

(***************************************************************************)
(* Actions.                                                                *)
(***************************************************************************)
Init ==
  /\ reqs = [c \in Conns |-> NoRequest]
  /\ students = Students0
  /\ nextId = 3
  /\ files = Files0
  /\ served = 0
  /\ probe = [pre |-> <<>>, id |-> <<>>, post |-> <<>>, path |-> <<>>,
              route |-> 0, match |-> NoMatch]

\* A request arrives on connection c.
Accept(c, method, url, fields) ==
  /\ reqs[c].pc = "idle"
  /\ served < MaxRequests
  /\ reqs' = [reqs EXCEPT ![c] = newRequest(method, url, fields)]
  /\ served' = served + 1
  /\ UNCHANGED <<students, nextId, files, probe>>

Arrive(c) ==
  \E method \in Methods, url \in Urls :
    \E fields \in FormsFor(method, url) : Accept(c, method, url, fields)

\* The connection of an answered request, or of one that never will be,
\* closes.
Close(c) ==
  /\ reqs[c].pc \in {"done", "failed"}
  /\ reqs' = [reqs EXCEPT ![c] = NoRequest]
  /\ UNCHANGED <<students, nextId, files, served, probe>>

\* handleRequest runs to its first await, or to the end of the response.
HandleRequest(c) ==
  /\ reqs[c].pc = "accepted"
  /\ reqs' = [reqs EXCEPT ![c] = handleRequest(reqs[c])]
  /\ UNCHANGED <<students, nextId, files, served, probe>>

\* await fs.access(filePath), then the containment test and the 404, or the
\* file's extension and MIME type and the start of the read.
staticAccessed(r, fileSet) ==
  LET fileExists == accessible(fileSet, r.filePath)
      fileFound == underPublicPath(r.filePath) /\ fileExists
      q == [r EXCEPT !.fileExists = fileExists]
  IN IF ~fileFound
     THEN monkeyPatchedEnd(writeHead(q, 404, "text/html", <<>>),
                           <<"<h1>Not found!</h1>">>)
     ELSE [q EXCEPT !.pc = "static_read"]

StaticAccess(c) ==
  /\ reqs[c].pc = "static_access"
  /\ reqs' = [reqs EXCEPT ![c] = staticAccessed(reqs[c], files)]
  /\ UNCHANGED <<students, nextId, files, served, probe>>

\* await fs.readFile(filePath): the 200 with the file, or a rejection.
staticRead(r, fileSet) ==
  IF readable(fileSet, r.filePath)
  THEN monkeyPatchedEnd(
         writeHead(r, 200,
                   mimeType(toLowerCase(sliceFrom(pathExtname(r.filePath), 2))),
                   <<>>),
         <<"file:">> \o r.filePath)
  ELSE unhandledRejection(r)

StaticRead(c) ==
  /\ reqs[c].pc = "static_read"
  /\ reqs' = [reqs EXCEPT ![c] = staticRead(reqs[c], files)]
  /\ UNCHANGED <<students, nextId, files, served, probe>>

\* Something outside the server removes a file.
Unlink ==
  /\ \E f \in files : files' = files \ {f}
  /\ UNCHANGED <<reqs, students, nextId, served, probe>>

\* request.on("data"): the next chunk of the body arrives.
onData(r, chunk) ==
  [r EXCEPT !.chunks = pushChunk(@, chunk), !.nData = @ + 1,
            !.unsent = sliceFrom(@, Len(chunk) + 1)]

OnData(c) ==
  /\ reqs[c].pc = "read_body"
  /\ reqs[c].unsent # <<>>
  /\ \E n \in 1..Len(reqs[c].unsent) :
       /\ reqs[c].nData + 1 < MaxChunks \/ n = Len(reqs[c].unsent)
       /\ reqs' = [reqs EXCEPT ![c] = onData(reqs[c], SubSeq(reqs[c].unsent, 1, n))]
  /\ UNCHANGED <<students, nextId, files, served, probe>>

\* request.on("end"): the promise resolves with the FormData and the handler
\* that awaits it goes on.
onEnd(r) == bodyParsed([r EXCEPT !.formData = parseBody(r.chunks), !.parsed = TRUE])

OnEnd(c) ==
  /\ reqs[c].pc = "read_body"
  /\ reqs[c].unsent = <<>>
  /\ reqs' = [reqs EXCEPT ![c] = onEnd(reqs[c])]
  /\ UNCHANGED <<students, nextId, files, served, probe>>

\* A parser that settles its promise on "error" as it does on "end".
resolvePartial(r) == onEnd([r EXCEPT !.rejected = TRUE])

\* request.on("error", reject): the promise rejects and the awaiting handler,
\* which has no try around the await, throws.
onError(r) == unhandledRejection([r EXCEPT !.rejected = TRUE])

OnError(c) ==
  /\ reqs[c].pc = "read_body"
  /\ reqs' = [reqs EXCEPT ![c] = onError(reqs[c])]
  /\ UNCHANGED <<students, nextId, files, served, probe>>

\* await db.get("SELECT EXISTS(... WHERE name = ?)"), then the insert is
\* started or the redirect is written.
createExists(r, rows) ==
  LET isUniqueStudent == rowsWithName(rows, r.studentName) = {}
  IN IF isUniqueStudent THEN [r EXCEPT !.pc = "create_insert"]
     ELSE redirect(r, <<"/", "students">>, 302)

CreateExists(c) ==
  /\ reqs[c].pc = "create_exists"
  /\ reqs' = [reqs EXCEPT ![c] = createExists(reqs[c], students)]
  /\ UNCHANGED <<students, nextId, files, served, probe>>

\* await db.run("INSERT INTO students (name, house) VALUES (?, ?)"), then the
\* redirect; a constraint failure rejects with nobody to catch it.
CreateInsert(c) ==
  LET r == reqs[c] IN
  /\ r.pc = "create_insert"
  /\ IF uniqueConflict(students, r.studentName, r.studentHouse)
     THEN /\ reqs' = [reqs EXCEPT ![c] = unhandledRejection(r)]
          /\ UNCHANGED <<students, nextId>>
     ELSE /\ students' = students \cup {[id |-> nextId, name |-> r.studentName,
                                         house |-> r.studentHouse]}
          /\ nextId' = nextId + 1
          /\ reqs' = [reqs EXCEPT ![c] =
                        redirect([r EXCEPT !.dbRuns = @ + 1, !.changes = 1],
                                 <<"/", "students">>, 302)]
  /\ UNCHANGED <<files, served, probe>>

\* await db.all("SELECT id, name, house, image FROM students ..."), then the
\* template is read.
ListAll(c) ==
  /\ reqs[c].pc = "list_all"
  /\ reqs' = [reqs EXCEPT ![c] =
                renderTemplate([reqs[c] EXCEPT !.rows = students], "students.html", 200)]
  /\ UNCHANGED <<students, nextId, files, served, probe>>

\* A statement that resolves without having touched the table.
deleteNothing(rows, text) == rows

\* DELETE FROM students WHERE id = ?: the rows that remain.
deleteFrom(rows, text) == rows \ rowsWithId(rows, text)

\* await db.run("DELETE FROM students WHERE id = ?"), then the redirect.
DeleteRun(c) ==
  LET r == reqs[c] IN
  /\ r.pc = "delete_run"
  /\ students' = deleteFrom(students, r.studentId)
  /\ reqs' = [reqs EXCEPT ![c] =
                redirect([r EXCEPT !.dbRuns = @ + 1,
                                   !.changes = Cardinality(rowsWithId(students, r.studentId))],
                         <<"/", "students">>, 302)]
  /\ UNCHANGED <<nextId, files, served, probe>>

\* A handler that goes on without testing what the lookup returned.
changeLookupUnchecked(r, rows) ==
  LET q == [r EXCEPT !.student = rowsWithId(rows, r.studentId)]
  IN IF r.method = "POST" THEN parseFormData(q)
     ELSE renderTemplate(q, "student-edit.html", 200)

\* await db.get("SELECT name, house FROM students WHERE id = ?"), then the
\* 404, the body read of a POST or the form of a GET.
changeLookup(r, rows) ==
  LET student == rowsWithId(rows, r.studentId)
      q == [r EXCEPT !.student = student]
  IN IF student = {}
     THEN monkeyPatchedEnd(writeHead(q, 404, "text/html", <<>>),
                           <<"<h1>No student found</h1>">>)
     ELSE IF r.method = "POST" THEN parseFormData(q)
     ELSE renderTemplate(q, "student-edit.html", 200)

ChangeLookup(c) ==
  /\ reqs[c].pc = "change_lookup"
  /\ reqs' = [reqs EXCEPT ![c] = changeLookup(reqs[c], students)]
  /\ UNCHANGED <<students, nextId, files, served, probe>>

\* await db.run("UPDATE students SET name = ?, house = ? WHERE id = ?"): the
\* redirect, or the form again when the constraint fails.  changes is the
\* number of rows the statement reports to have changed; the handler does
\* not look at it.
ChangeUpdate(c) ==
  LET r == reqs[c]
      hit == rowsWithId(students, r.studentId)
      others == students \ hit
  IN /\ r.pc = "change_update"
     /\ IF hit # {} /\ uniqueConflict(others, r.studentName, r.studentHouse)
        THEN /\ reqs' = [reqs EXCEPT ![c] = renderTemplate(r, "student-edit.html", 400)]
             /\ UNCHANGED students
        ELSE /\ students' = others \cup {[s EXCEPT !.name = r.studentName,
                                                   !.house = r.studentHouse] : s \in hit}
             /\ reqs' = [reqs EXCEPT ![c] =
                           redirect([r EXCEPT !.dbRuns = @ + 1,
                                              !.changes = Cardinality(hit)],
                                    <<"/", "students">>, 302)]
     /\ UNCHANGED <<nextId, files, served, probe>>

\* The UPDATE rejects with an error other than the constraint's (the
\* database is locked, the disk fails): the catch tests the message, finds no
\* "UNIQUE constraint failed", and control falls through to the redirect.
UpdateFails(c) ==
  /\ reqs[c].pc = "change_update"
  /\ reqs' = [reqs EXCEPT ![c] = redirect(reqs[c], <<"/", "students">>, 302)]
  /\ UNCHANGED <<students, nextId, files, served, probe>>

\* Any other statement rejects: its await has no try around it.
QueryFails(c) ==
  /\ reqs[c].pc \in {"create_exists", "create_insert", "list_all", "delete_run",
                      "change_lookup", "api_all", "download_all"}
  /\ reqs' = [reqs EXCEPT ![c] = unhandledRejection(reqs[c])]
  /\ UNCHANGED <<students, nextId, files, served, probe>>

\* await db.all("SELECT name, house FROM students WHERE name LIKE ?"), then
\* the JSON response.
ApiAll(c) ==
  LET r == reqs[c]
      found == rowsLikeName(students, r.search)
  IN /\ r.pc = "api_all"
     /\ reqs' = [reqs EXCEPT ![c] = json([r EXCEPT !.rows = found], <<"json">>)]
     /\ UNCHANGED <<students, nextId, files, served, probe>>

\* await db.all("SELECT id, name, house FROM students"), then the CSV.
DownloadAll(c) ==
  LET r == reqs[c] IN
  /\ r.pc = "download_all"
  /\ reqs' = [reqs EXCEPT ![c] =
                monkeyPatchedEnd(writeHead([r EXCEPT !.rows = students],
                                           200, "text/csv", <<>>),
                                 <<"csv">>)]
  /\ UNCHANGED <<students, nextId, files, served, probe>>

\* The template has been read and compiled: writeHead(status).end(html).
Render(c) ==
  LET r == reqs[c] IN
  /\ r.pc = "render"
  /\ reqs' = [reqs EXCEPT ![c] =
                monkeyPatchedEnd(writeHead(r, r.renderStatus, "text/html", <<>>),
                                 <<r.template>>)]
  /\ UNCHANGED <<students, nextId, files, served, probe>>

\* fs.readFile of the template rejects inside renderTemplate: the handler
\* that awaits it throws.
RenderFails(c) ==
  /\ reqs[c].pc = "render"
  /\ reqs' = [reqs EXCEPT ![c] = unhandledRejection(reqs[c])]
  /\ UNCHANGED <<students, nextId, files, served, probe>>

\* What a connection's request does next.
Step(c) ==
  \/ HandleRequest(c)
  \/ StaticAccess(c)
  \/ StaticRead(c)
  \/ OnData(c)
  \/ OnEnd(c)
  \/ OnError(c)
  \/ CreateExists(c)
  \/ CreateInsert(c)
  \/ ListAll(c)
  \/ DeleteRun(c)
  \/ ChangeLookup(c)
  \/ ChangeUpdate(c)
  \/ UpdateFails(c)
  \/ QueryFails(c)
  \/ ApiAll(c)
  \/ DownloadAll(c)
  \/ Render(c)
  \/ RenderFails(c)

Next ==
  \/ \E c \in DispatchConns : Arrive(c) \/ Step(c) \/ Close(c)
  \/ Unlink

Spec == Init /\ [][Next]_vars

(***************************************************************************)
(* The form body parser on its own: POSTs to /students with every list of  *)
(* fields up to MaxFields, delivered in every split into chunks.           *)
(***************************************************************************)
FieldNames == {<<"name">>, <<"house">>}

FieldValues ==
  {<<"Ron">>, <<"Gryffindor">>, <<"Ron", " ", "&", "Co">>}

FieldLists == UNION {[1..k -> FieldNames \X FieldValues] : k \in 0..MaxFields}

ArriveForm(c) ==
  \E fields \in FieldLists : Accept(c, "POST", <<"/", "students">>, fields)

NextParse ==
  \E c \in DispatchConns :
    \/ ArriveForm(c)
    \/ HandleRequest(c)
    \/ OnData(c)
    \/ OnEnd(c)
    \/ OnError(c)
    \/ CreateExists(c)
    \/ CreateInsert(c)
    \/ Close(c)

SpecParse == Init /\ [][NextParse]_vars

(***************************************************************************)
(* The compiled patterns on their own: each pattern of the route table run *)
(* on the paths around the skeleton of the parameter route.                *)
(***************************************************************************)
\* The route with a placeholder, and where the placeholder is.
ParamRoute == CHOOSE i \in 1..Len(routeTable) : indexOf(routeTable[i].path, <<":">>) # 0

ParamAt == indexOf(routeTable[ParamRoute].path, <<":">>)

\* The literal skeleton with id in the parameter position.
skeleton(id) ==
  SubSeq(routeTable[ParamRoute].path, 1, ParamAt - 1) \o id
  \o sliceFrom(routeTable[ParamRoute].path, ParamAt + 2)

IdAtoms == {"7", "x", ".", "_", "-", "/"}

IdStrings == UNION {[1..k -> IdAtoms] : k \in 0..MaxIdLen}

Extras == {<<>>, <<"x">>, <<"/">>, <<"/", "x">>}

Probes ==
  {[pre |-> pre, id |-> id, post |-> post, path |-> pre \o skeleton(id) \o post,
    route |-> 0, match |-> NoMatch] : pre \in Extras, id \in IdStrings, post \in Extras}

InitMatch ==
  /\ reqs = [c \in Conns |-> NoRequest]
  /\ students = Students0
  /\ nextId = 3
  /\ files = Files0
  /\ served = 0
  /\ probe \in Probes

\* route.pattern.exec(pathname) for route i.
ExecPattern(i) ==
  /\ probe.route = 0
  /\ probe' = [probe EXCEPT !.route = i,
                            !.match = regexExec(routes[i].pattern, probe.path)]
  /\ UNCHANGED <<reqs, students, nextId, files, served>>

NextMatch == \E i \in 1..Len(routeTable) : ExecPattern(i)

SpecMatch == InitMatch /\ [][NextMatch]_vars

(***************************************************************************)
(* Requests in flight together: creations, changes of record 1, deletions  *)
(* of record 1 and listings on both connections, every await of one        *)
(* interleaved with every await of the other.  The body streams and the    *)
(* reads here are reliable; the UPDATE may fail.                           *)
(***************************************************************************)
CreateForms ==
  { << <<<<"name">>, <<"Ron">>>>, <<<<"house">>, <<"Gryffindor">>>> >>,
    << <<<<"name">>, <<"Ron">>>>, <<<<"house">>, <<"Slytherin">>>> >>,
    << <<<<"name">>, <<>>>>, <<<<"house">>, <<"Gryffindor">>>> >>,
    << <<<<"name">>, <<"Ron">>>> >> }

ChangeForms ==
  { << <<<<"name">>, <<"Ron">>>>, <<<<"house">>, <<"Gryffindor">>>> >>,
    << <<<<"name">>, <<>>>>, <<<<"house">>, <<"Muggle">>>> >> }

ArriveCreate(c) ==
  \E fields \in CreateForms : Accept(c, "POST", <<"/", "students">>, fields)

ArriveChange(c) ==
  \E fields \in ChangeForms :
    Accept(c, "POST", <<"/", "students", "/", "1", "/", "change">>, fields)

ArriveDelete(c) ==
  Accept(c, "POST", <<"/", "students", "/", "delete">>, << <<<<"id">>, <<"1">>>> >>)

ArriveList(c) == Accept(c, "GET", <<"/", "students">>, <<>>)

NextConc ==
  \E c \in Conns :
    \/ ArriveCreate(c)
    \/ ArriveChange(c)
    \/ ArriveDelete(c)
    \/ ArriveList(c)
    \/ HandleRequest(c)
    \/ OnData(c)
    \/ OnEnd(c)
    \/ CreateExists(c)
    \/ CreateInsert(c)
    \/ ListAll(c)
    \/ DeleteRun(c)
    \/ ChangeLookup(c)
    \/ ChangeUpdate(c)
    \/ UpdateFails(c)
    \/ Render(c)
    \/ Close(c)

SpecConc == Init /\ [][NextConc]_vars

\* Creations alone, in flight together.
NextCreate ==
  \E c \in Conns :
    \/ ArriveCreate(c)
    \/ HandleRequest(c)
    \/ OnData(c)
    \/ OnEnd(c)
    \/ CreateExists(c)
    \/ CreateInsert(c)
    \/ Close(c)

SpecCreate == Init /\ [][NextCreate]_vars

(***************************************************************************)
(* Properties.                                                             *)
(***************************************************************************)
\* handleRequest has run for the request.
handled(r) == r.pc \notin {"idle", "accepted"}

PageNotFound == <<"<h1>Page not found!</h1>">>

\* The path the static resolver arrives at for a /public/ URL: the prefix
\* stripped, the rest joined onto the public root, ".." resolved.
resolvedPath(url) == pathJoin(PUBLIC_PATH, sliceFrom(url, Len(PublicPrefix) + 1))

\* The root or a descendant of it, segment by segment.
withinPublicRoot(p) == p = PUBLIC_PATH \/ startsWith(p, PUBLIC_PATH \o <<"/">>)

\* C1: a request whose URL starts with /public/ and whose resolved path is
\* neither the public root nor a descendant of it is answered 404, never 200
\* with file contents.
C1_StaticContainment ==
  \A c \in Conns :
    LET r == reqs[c]
    IN (r.pc = "done" /\ startsWith(r.url, PublicPrefix)
        /\ ~withinPublicRoot(resolvedPath(r.url)))
       => r.status = 404 /\ ~startsWith(r.out, <<"file:">>)

\* C2: GET / is not redirected by the trailing-slash rule: it reaches the
\* route table, the index handler runs and answers 302 to /students.
C2_RootReachesIndex ==
  \A c \in Conns :
    LET r == reqs[c]
    IN (handled(r) /\ r.method = "GET" /\ r.url = <<"/">>)
       => /\ r.status = 302
          /\ r.location = Origin \o <<"/", "students">>
          /\ r.invoked = <<"index">>

\* C3: a request whose path ends in "/" and is not "/", whatever its method
\* and query string, is answered 301 to the path without the slash, with no
\* static lookup, no route matching and no handler.
C3_TrailingSlashRedirect ==
  \A c \in Conns :
    LET r == reqs[c]
        pathname == urlPathname(r.url)
    IN (handled(r) /\ endsWith(pathname, <<"/">>) /\ pathname # <<"/">>)
       => /\ r.pc = "done"
          /\ r.status = 301
          /\ startsWith(r.location, Origin \o sliceDropLast(pathname))
          /\ r.invoked = <<>>
          /\ r.tested = <<>>
          /\ r.filePath = <<>>

\* The routes whose pattern matches the path.
matching(pathname) ==
  {i \in 1..Len(routeTable) : regexExec(routes[i].pattern, pathname).ok}

least(S) == CHOOSE i \in S : \A j \in S : i <= j

\* C4: when the first route whose pattern matches the path does not allow
\* the method, the answer is 405 with an empty body, scanning stops at that
\* route, no handler runs and no statement is run on the store.
C4_MethodNotAllowed ==
  \A c \in Conns :
    LET r == reqs[c]
        m == matching(urlPathname(r.url))
    IN (handled(r) /\ m # {} /\ r.method \notin routes[least(m)].methods)
       => /\ r.pc = "done"
          /\ r.status = 405
          /\ r.out = <<>>
          /\ r.invoked = <<>>
          /\ r.tested = [k \in 1..least(m) |-> k]
          /\ r.dbRuns = 0

\* C5: a request that neither the trailing-slash redirect nor the static
\* resolver takes ends in exactly one of: the handler of the first route
\* matching its path is invoked (method allowed), the dispatcher's 405, the
\* dispatcher's 404; the 404 exactly when no pattern matches; the dispatcher
\* writes no 404 or 405 once it has invoked a handler.
C5_DispatchOutcome ==
  \A c \in Conns :
    LET r == reqs[c]
        m == matching(urlPathname(r.url))
        dispatcher404 == r.invoked = <<>> /\ r.pc = "done" /\ r.status = 404
                         /\ r.out = PageNotFound
        dispatcher405 == r.invoked = <<>> /\ r.pc = "done" /\ r.status = 405
    IN (handled(r) /\ ~endsWith(r.url, <<"/">>) /\ ~startsWith(r.url, PublicPrefix))
       => /\ Len(r.invoked) <= 1
          /\ dispatcher404 <=> m = {}
          /\ m # {} /\ r.method \in routes[least(m)].methods
               => r.invoked = <<routes[least(m)].handler>>
          /\ m # {} /\ r.method \notin routes[least(m)].methods => dispatcher405
          /\ r.invoked # <<>> => r.status # 405 /\ r.out # PageNotFound
          /\ r.filePath = <<>>

C5_Witness ==
  \E c \in Conns :
    /\ handled(reqs[c])
    /\ reqs[c].invoked = <<"studentChange">>
    /\ paramsGet(reqs[c].params, <<"id">>) = <<"7">>

\* C6: the pattern compiled from /students/:id/change matches exactly the
\* paths that are the skeleton with a non-empty string over [A-Za-z0-9_.] in
\* the parameter position, and params.id is that string; an empty string
\* there, or anything before or after the skeleton, does not match.
C6_ParamMatch ==
  probe.route = ParamRoute
  => /\ probe.match.ok
          <=> /\ probe.pre = <<>>
              /\ probe.post = <<>>
              /\ probe.id # <<>>
              /\ \A k \in 1..Len(probe.id) : probe.id[k] \in {"7", "x", ".", "_"}
     /\ probe.match.ok
          => paramsGet(probe.match.groups, <<"id">>) = probe.id

C6_Witness ==
  /\ probe.route = ParamRoute
  /\ probe.match.ok
  /\ probe.id = <<"7", ".">>

\* C7 as stated: the hook logs exactly once per answered request, after the
\* body has been written.
C7_LogAfterBody ==
  \A c \in Conns :
    LET r == reqs[c]
        logs == {i \in 1..Len(r.events) : r.events[i].ev = "log"}
        ends == {i \in 1..Len(r.events) : r.events[i].ev = "end"}
    IN r.pc = "done"
       => /\ Cardinality(logs) = 1
          /\ \A i \in logs : \E j \in ends : j < i

\* C7, amended: for every request that is answered, on every path, the hook
\* logs method, URL and the final status code exactly once, when response.end
\* is called: before the body is written.  Nothing is logged earlier.
C7_LogOnceBeforeBody ==
  \A c \in Conns :
    LET r == reqs[c]
        line(ev) == [ev |-> ev, method |-> r.method, url |-> r.url, status |-> r.status]
    IN /\ r.pc = "done" => r.events = <<line("log"), line("end")>> /\ r.status # 0
       /\ r.pc # "done" => r.events = <<>>

C7_Witness ==
  \E c \in Conns :
    /\ reqs[c].pc = "done"
    /\ reqs[c].status = 400
    /\ reqs[c].invoked = <<"studentChange">>
    /\ Len(reqs[c].events) = 2

\* C8: a static request whose file passed the existence check and was
\* deleted before the read still ends in a response (404 or a reported read
\* failure), never without one.
C8_DeletedFileAnswered ==
  \A c \in Conns :
    LET r == reqs[c]
    IN (r.fileExists /\ ~accessible(files, r.filePath) /\ r.pc # "static_read")
       => r.pc \in {"done", "idle"} /\ r.status # 0

\* The value a list of submitted fields holds under a name: the first, the
\* last.
firstOf(fields, name) ==
  LET hits == {i \in 1..Len(fields) : fields[i][1] = name}
  IN IF hits = {} THEN Null ELSE fields[least(hits)][2]

lastOf(fields, name) ==
  LET hits == {i \in 1..Len(fields) : fields[i][1] = name}
  IN IF hits = {} THEN Null ELSE fields[CHOOSE i \in hits : \A j \in hits : j <= i][2]

\* C9 as stated: of a field name that the body repeats, the handler obtains
\* the last value.
C9_LastValueWins ==
  \A c \in Conns :
    LET r == reqs[c]
    IN (r.parsed /\ handlerOf(r) = "studentList")
       => /\ r.studentName = lastOf(r.fields, <<"name">>)
          /\ r.studentHouse = lastOf(r.fields, <<"house">>)

\* C9, amended: of a field name that the body repeats, the handler obtains
\* the first value in the body, for every body and every repeated name.
C9_FirstValueWins ==
  \A c \in Conns :
    LET r == reqs[c]
    IN (r.parsed /\ handlerOf(r) = "studentList")
       => /\ r.studentName = firstOf(r.fields, <<"name">>)
          /\ r.studentHouse = firstOf(r.fields, <<"house">>)

C9_Witness ==
  \E c \in Conns :
    LET r == reqs[c]
    IN /\ r.parsed
       /\ Len(r.fields) = 2
       /\ r.fields[1][1] = <<"name">>
       /\ r.fields[2][1] = <<"name">>
       /\ r.fields[1][2] # r.fields[2][2]
       /\ r.studentName = r.fields[1][2]

\* C10: nothing is parsed or delivered while chunks are still arriving; the
\* result exists only after the end event and is the parse of all chunks
\* concatenated in arrival order, that is, of the body as it was sent.
C10_ParseAfterEnd ==
  \A c \in Conns :
    LET r == reqs[c]
    IN /\ r.pc = "read_body"
            => /\ ~r.parsed
               /\ r.formData = <<>>
               /\ r.studentName = Null
               /\ concat(r.chunks) \o r.unsent = r.body
       /\ r.parsed
            => /\ r.unsent = <<>>
               /\ concat(r.chunks) = r.body
               /\ r.formData = URLSearchParams(r.body)

C10_Witness ==
  \E c \in Conns :
    LET r == reqs[c]
    IN /\ r.parsed
       /\ Len(r.chunks) = 2
       /\ r.chunks[1] # r.chunks[2]
       /\ Len(r.formData) = 2

\* C11: when the body stream reports an error before it ends, the promise of
\* parseFormData is rejected and never resolved: no FormData is built from
\* the chunks received so far, no handler goes on with field values, and
\* nothing has been written to the response.
C11_ErrorRejects ==
  \A c \in Conns :
    LET r == reqs[c] IN
    r.rejected =>
      /\ r.pc = "failed"
      /\ ~r.parsed
      /\ r.formData = <<>>
      /\ r.studentName = Null /\ r.studentHouse = Null
      /\ r.dbRuns = 0
      /\ r.status = 0 /\ r.out = <<>> /\ r.events = <<>>

\* The stream failed after a chunk with a whole field had been received.
C11_Witness ==
  \E c \in Conns :
    /\ reqs[c].rejected
    /\ reqs[c].chunks # <<>>
    /\ parseBody(reqs[c].chunks) # <<>>

\* The submitted fields do not make a valid record: the name is empty or
\* absent, or the house is absent or not one of the four.
invalidFields(fields) ==
  \/ firstOf(fields, <<"name">>) \in {Null, <<>>}
  \/ firstOf(fields, <<"house">>) \notin HOUSES

\* C12: a POST to /students/:id/change for an existing record whose body has
\* an empty or absent name, or an absent or unknown house, is answered 400
\* with the form rendered again and no statement run on the store; a missing
\* field is never an error.
C12_InvalidChangeRejected ==
  \A c \in Conns :
    LET r == reqs[c] IN
    (handlerOf(r) = "studentChange" /\ r.method = "POST" /\ r.parsed
     /\ invalidFields(r.fields))
    => /\ \/ r.pc = "render" /\ r.renderStatus = 400
          \/ r.pc = "done" /\ r.status = 400
       /\ r.template = "student-edit.html"
       /\ r.dbRuns = 0

\* The request on c is a POST /students/delete that has been answered after
\* its DELETE ran.
deleteAnswered(r) ==
  handlerOf(r) = "studentDelete" /\ r.pc = "done" /\ r.dbRuns = 1

\* C13: the DELETE has been applied to the store when the redirect of a
\* POST /students/delete is written, and a listing whose query runs once
\* that delete has been answered holds no record with the deleted id.
C13_DeleteVisible ==
  [][\A c \in Conns :
       /\ (reqs[c].pc = "delete_run" /\ reqs'[c].pc = "done")
          => /\ reqs'[c].status = 302
             /\ rowsWithId(students', reqs[c].studentId) = {}
       /\ \A d \in Conns :
            (reqs[c].pc = "list_all" /\ reqs'[c].pc = "render" /\ deleteAnswered(reqs[d]))
            => rowsWithId(reqs'[c].rows, reqs[d].studentId) = {}]_vars

\* A listing was queried after the delete of record 1 had been answered, with
\* another record still in it.
C13_Witness ==
  \E c, d \in Conns :
    /\ deleteAnswered(reqs[d])
    /\ reqs[d].studentId = <<"1">>
    /\ reqs[d].changes = 1
    /\ handlerOf(reqs[c]) = "studentList" /\ reqs[c].method = "GET"
    /\ reqs[c].pc \in {"render", "done"}
    /\ reqs[c].rows # {}
    /\ rowsWithId(reqs[c].rows, <<"1">>) = {}

\* C14: a request whose URL begins with /public/ and does not end in a slash
\* is decided by the static resolver alone: no pattern of the route table is
\* tested, no handler is invoked, the method is never checked (no 405), and
\* once the resolver has finished the status is 200 or 404, 200 exactly when
\* the resolved path is under the public directory and the file exists.
C14_StaticOnly ==
  \A c \in Conns :
    LET r == reqs[c] IN
    (handled(r) /\ startsWith(r.url, PublicPrefix) /\ ~endsWith(r.url, <<"/">>))
    => /\ r.tested = <<>> /\ r.invoked = <<>>
       /\ r.pc \in {"static_access", "static_read", "done"}
       /\ r.pc = "done" =>
            /\ r.status \in {200, 404}
            /\ r.status = 200 <=> (underPublicPath(r.filePath) /\ r.fileExists)

\* C15: a GET or POST to /students/:id/change whose id is the id of no
\* record when the handler's lookup returns is answered 404; no listener is
\* put on the request body, nothing of it is read, and no statement is run on
\* the store.
C15_UnknownIdNotFound ==
  \A c \in Conns :
    LET r == reqs[c] IN
    (handlerOf(r) = "studentChange" /\ r.pc \notin {"change_lookup", "failed"}
     /\ r.student = {})
    => /\ r.pc = "done" /\ r.status = 404
       /\ r.out = <<"<h1>No student found</h1>">>
       /\ ~r.parsed /\ r.nData = 0 /\ r.chunks = <<>> /\ r.unsent = r.body
       /\ r.dbRuns = 0

\* A POST with a form for an id that no record has was answered.
C15_Witness ==
  \E c \in Conns :
    /\ handlerOf(reqs[c]) = "studentChange"
    /\ reqs[c].method = "POST"
    /\ reqs[c].body # <<>>
    /\ reqs[c].studentId = <<"7">>
    /\ reqs[c].pc = "done"
    /\ reqs[c].status = 404

\* C16: every request ends in exactly one completed response, on every path
\* of the dispatcher and of every handler: no request is ever left with its
\* handler over (its promise rejected, nothing running for it any more) and
\* no response written, and a response that ended carries a status.
C16_EveryRequestAnswered ==
  \A c \in Conns :
    /\ reqs[c].pc # "failed"
    /\ reqs[c].pc = "done" => reqs[c].status # 0

\* C17: whatever the interleaving of POST /students requests, no two records
\* of the store have the same name, and every such request is answered with
\* the redirect to /students.
C17_UniqueNames ==
  /\ \A s, t \in students : s.name = t.name => s = t
  /\ \A c \in Conns :
       LET r == reqs[c] IN
       (handlerOf(r) = "studentList" /\ r.method = "POST")
       => /\ r.pc # "failed"
          /\ r.pc = "done" =>
               r.status = 302 /\ r.location = Origin \o <<"/", "students">>

\* C18: a POST to /students/:id/change is answered with the redirect only if
\* its UPDATE was applied: the statement ran and changed the record with that
\* id, which then carried the submitted name and house, whatever was
\* interleaved between the lookup and the update.
C18_RedirectMeansUpdated ==
  \A c \in Conns :
    LET r == reqs[c] IN
    (handlerOf(r) = "studentChange" /\ r.pc = "done" /\ r.status = 302)
    => r.dbRuns = 1 /\ r.changes = 1

\* C19: every record of the store has a non-empty name and one of the four
\* houses, after any interleaving of creations, changes and deletions with
\* valid and invalid bodies.
C19_ValidStore ==
  \A s \in students :
    /\ s.name # Null /\ Len(s.name) > 0
    /\ s.house \in HOUSES

\* A record has been created or changed, and a request with an invalid body
\* has been answered.
C19_Witness ==
  /\ students \ Students0 # {}
  /\ \E c \in Conns :
       /\ reqs[c].pc = "done"
       /\ reqs[c].parsed
       /\ handlerOf(reqs[c]) \in {"studentList", "studentChange"}
       /\ invalidFields(reqs[c].fields)

==============================================================================
